---- MODULE Spec2Model ----
(***************************************************************************)
(* Session and conversation-state model of the Streamlit chat front end.   *)
(*                                                                         *)
(* One action is one run of the script's main() (src/streamlit_app.py),    *)
(* triggered by one browser event; st.rerun() ends a run early and         *)
(* requests a further run, which is the action Rerender.  The session     *)
(* variables are the keys of st.session_state.  Message timestamps and     *)
(* avatars are not modelled.  The methods of APIClient                     *)
(* (src/services/api_client.py) that main() does not call are applied on   *)
(* their own to a call held in the variable client (SpecClient).           *)
(*                                                                         *)
(* Encodings.  Python None is the reserved token None (NoneSeq for values  *)
(* that are sequences); no string drawn from the input sets equals it.    *)
(* A text that is searched or pattern-matched is a sequence: message       *)
(* contents are sequences of words, e-mail inputs sequences of characters. *)
(* A Python dict with optional keys is a record with a field "keys", the  *)
(* set of keys present; Get is dict.get.                                   *)
(***************************************************************************)
EXTENDS Integers, Sequences, FiniteSets, TLC

VARIABLES
    messages,         \* st.session_state.messages
    selected_mode,    \* st.session_state.selected_mode
    query_count,      \* st.session_state.query_count
    email_provided,   \* st.session_state.email_provided
    user_email,       \* st.session_state.user_email
    session_id,       \* st.session_state.session_id
    audio,            \* value of the mic_recorder component (kept across runs)
    last_audio,       \* st.session_state.last_audio
    audio_processed,  \* st.session_state.audio_processed
    email_input,      \* st.session_state.email_input: the text of the e-mail input
    rerun,            \* the last run ended in st.rerun(): a run is pending
    submitted,        \* history: prompts accepted by the chat input since start / Clear
    attempts,         \* history: query calls made for the user message at the tail
    plain,            \* history: so far only chat submissions and runs without an
                      \* event, and every query returned a value other than None
    switched,         \* history: the mode was switched, and no prompt was accepted
                      \* and no Clear performed since
    run,              \* history: what the last run of main() did
    client            \* a call of a method of APIClient or of a function of
                      \* chat_interface.py on its own: the function, its
                      \* arguments, what the network does, and what it returns

vars == <<messages, selected_mode, query_count, email_provided, user_email,
          session_id, audio, last_audio, audio_processed, email_input, rerun,
          submitted,
          attempts, plain, switched, run, client>>

-----------------------------------------------------------------------------
(* Bounds of the model *)

MaxMessages == 5
MaxAttempts == 2
MaxEmailLen == 6
MaxQueryCount == 4
MaxLines == 3
MaxEvents == 4
MaxSources == 2

(* Program constants *)

QuotaThreshold == 3
TopK == 5

None == "None"
NoneSeq == <<"None">>

Modes == {"knowledge", "preparation"}

-----------------------------------------------------------------------------
(* Input domains *)

Prompts == {<<"Wie", "verhandle", "ich">>}

AudioClips == {"clip1"}

\* Outcome of POST /api/transcribe: resp.ok and the stripped "text" field
\* (an exception of the request behaves as ok = FALSE).
Transcriptions ==
    {[ok |-> FALSE, text |-> <<>>], [ok |-> TRUE, text |-> <<>>]}
    \cup {[ok |-> TRUE, text |-> p] : p \in Prompts}

Answers == {<<"Antwort">>, <<"Willkommen", "zurueck">>}

SessionIdValues == {None, "", "s1", "s2"}

\* A Python value returned by response.json(): a dict, or some other JSON
\* value (t = "list" stands for a non-empty list).
\* The fields sources, document_count and retrieved_content are given by
\* WithSources; NoCount stands for a count that is not there.
NoCount == 0 - 1

Dict(keys, answer, sid, pdf, url) ==
    [t |-> "dict", keys |-> keys, answer |-> answer, session_id |-> sid,
     pdf_available |-> pdf, pdf_download_url |-> url,
     sources |-> NoneSeq, document_count |-> NoCount,
     retrieved_content |-> NoneSeq]

WithSources(d, sources, document_count, retrieved_content) ==
    [d EXCEPT !.keys = @ \cup {"sources", "document_count", "retrieved_content"},
              !.sources = sources, !.document_count = document_count,
              !.retrieved_content = retrieved_content]

PyNone == [t |-> "None", keys |-> {}, answer |-> NoneSeq, session_id |-> None,
           pdf_available |-> FALSE, pdf_download_url |-> None,
           sources |-> NoneSeq, document_count |-> NoCount,
           retrieved_content |-> NoneSeq]

PyList == [PyNone EXCEPT !.t = "list"]

JsonBodies ==
    {Dict({}, NoneSeq, None, FALSE, None), PyList}
    \cup {Dict({"answer"}, a, None, FALSE, None) : a \in Answers}
    \cup {Dict({"answer", "session_id"}, <<"Antwort">>, s, FALSE, None) :
            s \in SessionIdValues}
    \cup {Dict({"session_id"}, NoneSeq, "s1", FALSE, None),
          Dict({"answer", "session_id", "pdf_available", "pdf_download_url"},
               <<"Antwort">>, "s1", TRUE, "/api/pdf/download/s1"),
          WithSources(Dict({"answer", "session_id"}, <<"Antwort">>, "s1",
                           FALSE, None),
                      <<"doc1.pdf", "doc2.pdf">>, 2, <<"Auszug1">>)}

\* What requests.post does: an HTTP response (status code, and the body as
\* response.json() parses it, or parsable = FALSE), or a raised exception.
HttpOutcomes ==
    {[kind |-> "response", status |-> 200, parsable |-> TRUE, body |-> b] :
        b \in JsonBodies}
    \cup {[kind |-> "response", status |-> 200, parsable |-> FALSE, body |-> PyNone],
          [kind |-> "response", status |-> 500, parsable |-> TRUE, body |-> PyNone],
          [kind |-> "ConnectionError", status |-> 0, parsable |-> FALSE, body |-> PyNone],
          [kind |-> "Timeout", status |-> 0, parsable |-> FALSE, body |-> PyNone],
          [kind |-> "Exception", status |-> 0, parsable |-> FALSE, body |-> PyNone]}

-----------------------------------------------------------------------------
(* Python helpers *)

\* dict.get(key, default)
Get(d, key, default) == IF key \in d.keys THEN d[key] ELSE default

\* truth value of a value returned by query_documents
Truthy(v) ==
    CASE v.t = "None" -> FALSE
      [] v.t = "dict" -> v.keys # {}
      [] OTHER -> TRUE

\* truth value of an optional string
TruthyStr(s) == s # None /\ s # ""

\* word in text
Contains(text, word) == \E i \in 1..Len(text) : text[i] = word

Last(s) == s[Len(s)]

-----------------------------------------------------------------------------
(* Messages *)

\* A message dict; the keys error, sources, document_count and
\* retrieved_content, which the renderer reads with get, are in none of the
\* dicts the script builds.
Message(role, content, mode, sid, pdf, url) ==
    [role |-> role, content |-> content, mode |-> mode, session_id |-> sid,
     pdf_available |-> pdf, pdf_download_url |-> url, error |-> FALSE,
     sources |-> NoneSeq, document_count |-> NoCount,
     retrieved_content |-> NoneSeq]

WelcomeContent(mode) ==
    IF mode = "knowledge"
    THEN <<"Willkommen", "Wissensmodus">>
    ELSE <<"Willkommen", "Vorbereitungsmodus">>

create_welcome_message(mode) ==
    Message("assistant", WelcomeContent(mode), mode, None, FALSE, None)

UserMessage(prompt) == Message("user", prompt, None, None, FALSE, None)

\* No message: what the history shows first when the list is empty.
NoMessage == Message("none", <<>>, None, None, FALSE, None)

NoResponseReceived == <<"No", "response", "received">>

-----------------------------------------------------------------------------
(* E-mail pattern  ^[a-zA-Z0-9._%+-]+@[a-zA-Z0-9.-]+\.[a-zA-Z]{2,}$ *)

Letters == {"a", "b", "c", "d", "e", "f", "g", "h", "i", "j", "k", "l", "m",
            "n", "o", "p", "q", "r", "s", "t", "u", "v", "w", "x", "y", "z",
            "A", "B", "C", "D", "E", "F", "G", "H", "I", "J", "K", "L", "M",
            "N", "O", "P", "Q", "R", "S", "T", "U", "V", "W", "X", "Y", "Z"}
Digits == {"0", "1", "2", "3", "4", "5", "6", "7", "8", "9"}
LocalChars == Letters \cup Digits \cup {".", "_", "%", "+", "-"}
DomainChars == Letters \cup Digits \cup {".", "-"}

\* The automaton of the pattern: "start", "local" (one or more local
\* characters read), "at", "domain", "dot", "tld1", "tld2" (two or more
\* letters read after the dot: the pattern is matched).
PatternStep(state, ch) ==
    CASE state = "start"  -> IF ch \in LocalChars THEN {"local"} ELSE {}
      [] state = "local"  -> (IF ch \in LocalChars THEN {"local"} ELSE {})
                             \cup (IF ch = "@" THEN {"at"} ELSE {})
      [] state = "at"     -> IF ch \in DomainChars THEN {"domain"} ELSE {}
      [] state = "domain" -> (IF ch \in DomainChars THEN {"domain"} ELSE {})
                             \cup (IF ch = "." THEN {"dot"} ELSE {})
      [] state = "dot"    -> IF ch \in Letters THEN {"tld1"} ELSE {}
      [] state = "tld1"   -> IF ch \in Letters THEN {"tld2"} ELSE {}
      [] state = "tld2"   -> IF ch \in Letters THEN {"tld2"} ELSE {}
      [] OTHER -> {}

\* The states the automaton can be in after the first n characters.
RECURSIVE PatternStates(_, _)
PatternStates(text, n) ==
    IF n = 0 THEN {"start"}
    ELSE UNION {PatternStep(st, text[n]) : st \in PatternStates(text, n - 1)}

\* Mutant of PatternAccepts: one letter after the dot is enough.
PatternAccepts_tld1(states) == states \cap {"tld1", "tld2"} # {}

PatternAccepts(states) == "tld2" \in states

\* re.match(pattern, email) is not None.  "$" matches at the end of the text
\* and also just before a newline that ends the text.
is_valid_email(email) ==
    \/ PatternAccepts(PatternStates(email, Len(email)))
    \/ /\ Len(email) > 0
       /\ email[Len(email)] = "\n"
       /\ PatternAccepts(PatternStates(email, Len(email) - 1))

-----------------------------------------------------------------------------
(* services/api_client.py *)

NoRequest == [keys |-> {}, question |-> <<>>, mode |-> None, top_k |-> 0,
              session_id |-> None]

\* Mutant of RequestData: the session id is left out of the request.
RequestData_NoSessionId(question, top_k, mode, sid) ==
    [keys |-> {"question", "mode"} \cup (IF top_k >= 0 THEN {"top_k"} ELSE {}),
     question |-> question, mode |-> mode,
     top_k |-> IF top_k >= 0 THEN top_k ELSE 0,
     session_id |-> None]

\* request_data of query_documents: top_k and session_id only when not None
\* (a top_k of None is a negative number here).
RequestData(question, top_k, mode, sid) ==
    [keys |-> {"question", "mode"}
              \cup (IF top_k >= 0 THEN {"top_k"} ELSE {})
              \cup (IF sid # None THEN {"session_id"} ELSE {}),
     question |-> question, mode |-> mode,
     top_k |-> IF top_k >= 0 THEN top_k ELSE 0,
     session_id |-> sid]

\* The exceptions of a request, by class: a timeout while connecting
\* (requests.exceptions.ConnectTimeout) is a ConnectionError and a Timeout;
\* kind "Timeout" is any other timeout, kind "Exception" any other exception.
IsInstance(kind, class) ==
    CASE class = "Exception" -> TRUE
      [] class = "ConnectionError" -> kind \in {"ConnectionError", "ConnectTimeout"}
      [] class = "Timeout" -> kind \in {"Timeout", "ConnectTimeout"}
      [] OTHER -> FALSE

\* Mutant of ExceptClauses: the clause for Timeout comes first.
ExceptClauses_TimeoutFirst == <<"Timeout", "ConnectionError", "Exception">>

\* The except clauses of the three methods, in their order.
ExceptClauses == <<"ConnectionError", "Timeout", "Exception">>

\* The except clause that handles an exception: the first whose class the
\* exception is an instance of; "raise" when there is none.
Handler(kind, clauses) ==
    LET hits == {i \in 1..Len(clauses) : IsInstance(kind, clauses[i])}
    IN  IF hits = {} THEN "raise"
        ELSE clauses[CHOOSE i \in hits : \A j \in hits : i <= j]

\* What the try block of check_health and query_documents raises: the
\* exception of the request, or that of response.json() on a body that is
\* no JSON (read only when the status is 200); "none" otherwise.
Raised(http) ==
    IF http.kind # "response" THEN http.kind
    ELSE IF http.status = 200 /\ ~http.parsable THEN "JSONDecodeError"
    ELSE "none"

\* An exception that leaves query_documents.
PyRaised == [PyNone EXCEPT !.t = "raised"]

\* Mutant of QueryResult: the body is returned whatever the status.
QueryResult_NoStatusCheck(http) ==
    IF http.kind = "response" /\ http.parsable THEN http.body ELSE PyNone

\* The value query_documents returns for what requests.post did.
QueryResult(http) ==
    IF Raised(http) = "none"
    THEN IF http.status = 200 THEN http.body ELSE PyNone
    ELSE IF Handler(Raised(http), ExceptClauses) = "raise" THEN PyRaised
    ELSE PyNone

query_documents(question, top_k, mode, sid, http) ==
    [request |-> RequestData(question, top_k, mode, sid),
     result |-> QueryResult(http)]

\* The dict check_health returns ("raised": an exception left the method).
HealthResult(status, error, details, data) ==
    [status |-> status, error |-> error, details |-> details, data |-> data]

check_health(http) ==
    IF Raised(http) = "none"
    THEN IF http.status = 200
         THEN HealthResult("healthy", None, None, http.body)
         ELSE HealthResult("unhealthy", "HTTP " \o ToString(http.status),
                           http.text, PyNone)
    ELSE LET clause == Handler(Raised(http), ExceptClauses)
         IN  CASE clause = "ConnectionError" ->
                    HealthResult("unreachable", "Cannot connect to backend",
                                 "Failed to connect", PyNone)
               [] clause = "Timeout" ->
                    HealthResult("timeout", "Request timeout",
                                 "Request took longer", PyNone)
               [] clause = "Exception" ->
                    HealthResult("error", Raised(http),
                                 "Unexpected error during health check", PyNone)
               [] OTHER -> HealthResult("raised", Raised(http), None, PyNone)

\* An event of the stream: a JSON payload of a "data: " line, or the error
\* event the method makes itself.
StreamEvent(type, content, sid, sources, document_count) ==
    [type |-> type, content |-> content, session_id |-> sid,
     sources |-> sources, document_count |-> document_count]

ChunkEvent(content) == StreamEvent("chunk", content, None, <<>>, NoCount)

CompleteEvent(sid, sources, document_count) ==
    StreamEvent("complete", "", sid, sources, document_count)

ErrorEvent(content) == StreamEvent("error", content, None, <<>>, NoCount)

\* A line of response.iter_lines(): whether it starts with "data: ",
\* whether the rest is JSON, and the payload json.loads gives.
StreamLine(data, parses, payload) ==
    [data |-> data, parses |-> parses, payload |-> payload]

\* Mutant of Payloads: a data line that is no JSON ends the sequence.
RECURSIVE Payloads_StopsAtMalformed(_)
Payloads_StopsAtMalformed(lines) ==
    IF lines = <<>> THEN <<>>
    ELSE LET line == Head(lines)
         IN  IF line.data /\ line.parses
             THEN <<line.payload>> \o Payloads_StopsAtMalformed(Tail(lines))
             ELSE IF line.data THEN <<>>
             ELSE Payloads_StopsAtMalformed(Tail(lines))

\* The events query_documents_stream yields for the lines it has read:
\* the payloads of the data lines that parse, in the order of the lines.
RECURSIVE Payloads(_)
Payloads(lines) ==
    IF lines = <<>> THEN <<>>
    ELSE LET line == Head(lines)
         IN  IF line.data /\ line.parses
             THEN <<line.payload>> \o Payloads(Tail(lines))
             ELSE Payloads(Tail(lines))

\* Mutant of ClauseEvents: a failure ends the stream without an event.
ClauseEvents_Silent(kind) == [events |-> <<>>, raised |-> FALSE]

\* What the except clauses of query_documents_stream yield for an exception.
ClauseEvents(kind) ==
    LET clause == Handler(kind, ExceptClauses)
    IN  CASE clause = "ConnectionError" ->
               [events |-> <<ErrorEvent("Cannot connect to backend")>>,
                raised |-> FALSE]
          [] clause = "Timeout" ->
               [events |-> <<ErrorEvent("Request timeout")>>, raised |-> FALSE]
          [] clause = "Exception" ->
               [events |-> <<ErrorEvent("Unexpected error: " \o kind)>>,
                raised |-> FALSE]
          [] OTHER -> [events |-> <<>>, raised |-> TRUE]

\* query_documents_stream, run until it ends.  net is what the network does:
\* the request raises an exception (kind), or answers with a status and the
\* lines of the body; net.fail is the exception that reading the body raises
\* ("none": the body is read to its end) and net.at the number of lines
\* read before it.  With a status other than 200 the body is read as
\* response.text for the log entry, before the error event is yielded.
query_documents_stream(question, top_k, mode, sid, net) ==
    LET request == RequestData(question, top_k, mode, sid)
        failure == IF net.kind # "response" THEN ClauseEvents(net.kind)
                   ELSE IF net.fail # "none" THEN ClauseEvents(net.fail)
                   ELSE [events |-> <<>>, raised |-> FALSE]
        yielded ==
            IF net.kind # "response" THEN <<>>
            ELSE IF net.status = 200
            THEN Payloads(IF net.fail = "none" THEN net.lines
                          ELSE SubSeq(net.lines, 1, net.at))
            ELSE IF net.fail = "none"
            THEN <<ErrorEvent("Backend error: " \o ToString(net.status))>>
            ELSE <<>>
    IN  [request |-> request,
         events |-> yielded \o failure.events,
         raised |-> failure.raised]

-----------------------------------------------------------------------------
(* components/chat_interface.py: the sources panel and the consumer of a   *)
(* stream of events.  A text is a string here; an excerpt that is not      *)
(* shown is None.                                                          *)

\* content[:500] + "..." for a content of more than 500 characters
ExcerptLimit == 500

Ellipsis == "..."

\* truth value of an optional list
TruthyList(l) == l # NoneSeq /\ l # <<>>

\* Mutant of Truncated: a content of exactly 500 characters is cut too.
Truncated_AtLimit(content) ==
    IF Len(content) >= ExcerptLimit
    THEN SubSeq(content, 1, ExcerptLimit) \o Ellipsis
    ELSE content

Truncated(content) ==
    IF Len(content) > ExcerptLimit
    THEN SubSeq(content, 1, ExcerptLimit) \o Ellipsis
    ELSE content

\* One pass of the loop over enumerate(sources, 1): the line of the source
\* and, under it, the expander with the excerpt at the same position.  The
\* name shown is format_source_name(source); the entry keeps the source.
SourceEntry(i, source, retrieved_content) ==
    [index |-> i, source |-> source,
     excerpt |-> IF TruthyList(retrieved_content) /\ i <= Len(retrieved_content)
                 THEN Truncated(retrieved_content[i])
                 ELSE None]

NoPanel == [shown |-> FALSE, document_count |-> NoCount, entries |-> <<>>]

\* What render_sources puts on the page.
render_sources(sources, document_count, retrieved_content) ==
    IF TruthyList(sources)
    THEN [shown |-> TRUE, document_count |-> document_count,
          entries |-> [i \in 1..Len(sources) |->
                          SourceEntry(i, sources[i], retrieved_content)]]
    ELSE NoPanel

\* The locals of render_streaming_message before the loop, and the number
\* of events taken from the generator.
StreamStart ==
    [full_content |-> "", sources |-> <<>>, document_count |-> 0,
     session_id |-> None, consumed |-> 0]

\* Mutant of OnChunk: the content of a chunk replaces what was received.
OnChunk_Overwrites(acc, chunk) ==
    [acc EXCEPT !.full_content =
                    IF chunk.content = None THEN "" ELSE chunk.content]

\* full_content += chunk.get("content", "")
OnChunk(acc, chunk) ==
    [acc EXCEPT !.full_content =
                    @ \o (IF chunk.content = None THEN "" ELSE chunk.content)]

\* Mutant of OnComplete: the sources of the complete event are not taken.
OnComplete_DropsSources(acc, chunk) ==
    [acc EXCEPT !.session_id = chunk.session_id,
                !.document_count = IF chunk.document_count = NoCount THEN 0
                                   ELSE chunk.document_count]

\* session_id = chunk.get("session_id"); sources = chunk.get("sources", []);
\* document_count = chunk.get("document_count", 0)
OnComplete(acc, chunk) ==
    [acc EXCEPT !.session_id = chunk.session_id,
                !.sources = IF chunk.sources = NoneSeq THEN <<>>
                            ELSE chunk.sources,
                !.document_count = IF chunk.document_count = NoCount THEN 0
                                   ELSE chunk.document_count]

\* Mutant of ErrorMessage: the message of an error event has no error key.
ErrorMessage_NoFlag(chunk, mode) ==
    Message("assistant",
            IF chunk.content = None THEN "An error occurred" ELSE chunk.content,
            mode, None, FALSE, None)

\* The dict returned for an error event: role, content, error, timestamp
\* and mode; content is chunk.get("content", "An error occurred").
ErrorMessage(chunk, mode) ==
    [Message("assistant",
             IF chunk.content = None THEN "An error occurred"
             ELSE chunk.content,
             mode, None, FALSE, None)
     EXCEPT !.error = TRUE]

\* The dict returned after the loop; it has no error key.
StreamedMessage(acc, mode) ==
    [Message("assistant", acc.full_content, mode, acc.session_id, FALSE, None)
     EXCEPT !.sources = acc.sources, !.document_count = acc.document_count]

\* The loop over the generator: a chunk is added, a complete event sets the
\* metadata and leaves the loop, an error event returns at once, an event
\* of another type is passed over.  After the loop the sources are rendered
\* when there are any, and the message is returned.
RECURSIVE StreamLoop(_, _, _)
StreamLoop(events, acc, mode) ==
    IF events = <<>>
    THEN [message |-> StreamedMessage(acc, mode), consumed |-> acc.consumed,
          panel |-> IF TruthyList(acc.sources)
                    THEN render_sources(acc.sources, acc.document_count, NoneSeq)
                    ELSE NoPanel]
    ELSE LET chunk == Head(events)
             taken == [acc EXCEPT !.consumed = @ + 1]
         IN  CASE chunk.type = "chunk" ->
                    StreamLoop(Tail(events), OnChunk(taken, chunk), mode)
               [] chunk.type = "complete" ->
                    StreamLoop(<<>>, OnComplete(taken, chunk), mode)
               [] chunk.type = "error" ->
                    [message |-> ErrorMessage(chunk, mode),
                     consumed |-> taken.consumed, panel |-> NoPanel]
               [] OTHER -> StreamLoop(Tail(events), taken, mode)

render_streaming_message(stream_generator, mode) ==
    StreamLoop(stream_generator, StreamStart, mode)

-----------------------------------------------------------------------------

(* One run of main().  The run works on a record r: the session fields,    *)
(* the control fields stop (the run has ended: return or st.rerun()) and   *)
(* rerun, and the history fields.  ev is the event that triggered the run  *)
(* with the inputs the run reads.                                          *)

NoTranscription == [ok |-> FALSE, text |-> <<>>]
NoHttp == [kind |-> "Exception", status |-> 0, parsable |-> FALSE, body |-> PyNone]

Event(kind, prompt, mode, clip, transcription, http, email) ==
    [kind |-> kind, prompt |-> prompt, mode |-> mode, clip |-> clip,
     transcription |-> transcription, http |-> http, email |-> email]

\* The record a run starts from.
Start(ev) ==
    [messages |-> messages, selected_mode |-> selected_mode,
     query_count |-> query_count, email_provided |-> email_provided,
     user_email |-> user_email, session_id |-> session_id,
     audio |-> audio, last_audio |-> last_audio,
     audio_processed |-> audio_processed,
     stop |-> FALSE, rerun |-> FALSE,
     submitted |-> submitted, attempts |-> attempts,
     plain |-> plain /\ ev.kind \in {"chat", "rerender"},
     switched |-> switched,
     email_input |-> IF ev.kind = "type" THEN ev.email ELSE email_input,
     event |-> ev.kind,
     modal |-> FALSE, widgets |-> FALSE, validation_error |-> FALSE,
     queried |-> FALSE, request |-> NoRequest, result |-> PyNone,
     answered |-> FALSE, cleared |-> FALSE,
     drawn |-> FALSE, first |-> NoMessage]

\* Mutant of QuotaReached: a captured e-mail does not lift the quota.
QuotaReached_IgnoresEmail(r) == r.query_count >= QuotaThreshold

\* The quota condition of main().
QuotaReached(r) == r.query_count >= QuotaThreshold /\ ~r.email_provided

\* Mutant of render_email_modal: a captured e-mail gives the used queries back.
render_email_modal_RestoresSlots(r, ev) ==
    LET shown == [r EXCEPT !.modal = TRUE]
        email == shown.email_input
    IN  IF ev.kind # "email" THEN shown
        ELSE IF email # <<>> /\ is_valid_email(email)
        THEN [shown EXCEPT !.user_email = email, !.email_provided = TRUE,
                           !.query_count = 0,
                           !.rerun = TRUE, !.stop = TRUE]
        ELSE [shown EXCEPT !.validation_error = TRUE]

\* render_email_modal(): the text input and the "Continue" button.
render_email_modal(r, ev) ==
    LET shown == [r EXCEPT !.modal = TRUE]
        email == shown.email_input
    IN  IF ev.kind # "email" THEN shown
        ELSE IF email # <<>> /\ is_valid_email(email)
        THEN [shown EXCEPT !.user_email = email, !.email_provided = TRUE,
                           !.rerun = TRUE, !.stop = TRUE]
        ELSE [shown EXCEPT !.validation_error = TRUE]

\* Mutant of quota_check: the prompt is drawn but the run goes on.
quota_check_NoReturn(r, ev) ==
    IF r.stop THEN r
    ELSE IF QuotaReached(r)
    THEN [render_email_modal(r, ev) EXCEPT !.widgets = TRUE]
    ELSE [r EXCEPT !.widgets = TRUE]

\* main(): "Check if user has reached the limit".  Past the check the run
\* draws the widgets of the chat page.
quota_check(r, ev) ==
    IF r.stop THEN r
    ELSE IF QuotaReached(r)
    THEN [render_email_modal(r, ev) EXCEPT !.stop = TRUE]
    ELSE [r EXCEPT !.widgets = TRUE]

\* Mutant of mode_selector: the welcome message of the new mode is always
\* appended.
mode_selector_AlwaysAppends(r, ev) ==
    IF r.stop THEN r
    ELSE LET previous_mode == r.selected_mode
             new_mode == IF ev.kind = "mode" THEN ev.mode ELSE r.selected_mode
             r1 == [r EXCEPT !.selected_mode = new_mode,
                             !.switched = r.switched \/ previous_mode # new_mode]
         IN  IF previous_mode # new_mode /\ Len(r.messages) > 0
             THEN [r1 EXCEPT !.messages =
                       Append(r.messages, create_welcome_message(new_mode))]
             ELSE r1

\* main(): the mode selector and the welcome message of a changed mode.
mode_selector(r, ev) ==
    IF r.stop THEN r
    ELSE LET previous_mode == r.selected_mode
             new_mode == IF ev.kind = "mode" THEN ev.mode ELSE r.selected_mode
             r1 == [r EXCEPT !.selected_mode = new_mode,
                             !.switched = r.switched \/ previous_mode # new_mode]
             n == Len(r.messages)
         IN  IF previous_mode # new_mode /\ n > 0
             THEN IF /\ r.messages[n].role = "assistant"
                     /\ Contains(r.messages[n].content, "Willkommen")
                  THEN [r1 EXCEPT !.messages[n] = create_welcome_message(new_mode)]
                  ELSE [r1 EXCEPT !.messages =
                            Append(r.messages, create_welcome_message(new_mode))]
             ELSE r1

\* main(): the sidebar recorder; a recording other than the last one is new.
sidebar_audio(r, ev) ==
    IF r.stop THEN r
    ELSE LET current == IF ev.kind = "audio" THEN ev.clip ELSE r.audio
             r1 == [r EXCEPT !.audio = current]
         IN  IF current # None /\ r.last_audio # current
             THEN [r1 EXCEPT !.last_audio = current, !.audio_processed = FALSE]
             ELSE r1

\* The loop that draws the messages; the run notes the first one drawn.
DrawHistory(r) ==
    [r EXCEPT !.drawn = TRUE,
              !.first = IF r.messages = <<>> THEN NoMessage ELSE r.messages[1]]

\* Mutant of chat_history: an empty list is drawn as it is.
chat_history_NoReseed(r) ==
    IF r.stop THEN r
    ELSE DrawHistory(r)

\* main(): "Ensure messages are initialized" before the history is drawn.
chat_history(r) ==
    IF r.stop THEN r
    ELSE IF r.messages = <<>>
    THEN DrawHistory([r EXCEPT !.messages =
                          <<create_welcome_message(r.selected_mode)>>])
    ELSE DrawHistory(r)

\* main(): st.chat_input.
chat_input(r, ev) ==
    IF r.stop THEN r
    ELSE IF ev.kind = "chat"
    THEN [r EXCEPT !.messages = Append(r.messages, UserMessage(ev.prompt)),
                   !.submitted = r.submitted + 1, !.attempts = 0,
                   !.switched = FALSE,
                   !.rerun = TRUE, !.stop = TRUE]
    ELSE r

\* main(): "Handle audio transcription from sidebar".
audio_transcription(r, ev) ==
    IF r.stop THEN r
    ELSE IF r.audio # None /\ ~r.audio_processed
    THEN LET t == ev.transcription
             r1 == IF t.ok /\ t.text # <<>>
                   THEN [r EXCEPT !.messages = Append(r.messages, UserMessage(t.text)),
                                  !.attempts = 0, !.switched = FALSE]
                   ELSE r
         IN  [r1 EXCEPT !.audio_processed = TRUE, !.rerun = TRUE, !.stop = TRUE]
    ELSE r

\* The assistant message main() builds from a response dict.
AssistantMessage(response, mode, sid) ==
    Message("assistant",
            Get(response, "answer", NoResponseReceived),
            mode,
            Get(response, "session_id", sid),
            Get(response, "pdf_available", FALSE),
            Get(response, "pdf_download_url", None))

\* Mutant of UpdateSessionId: the session_id of the message is stored as it is.
UpdateSessionId_Unconditional(sid, assistant_message) ==
    assistant_message.session_id

\* "update session_id": only a truthy session_id of the message is stored.
UpdateSessionId(sid, assistant_message) ==
    IF TruthyStr(assistant_message.session_id)
    THEN assistant_message.session_id
    ELSE sid

\* main(): "Generate response for the latest user message".  A truthy
\* response that is no dict raises at response.get, which the except
\* clause turns into st.error.
response_generation(r, ev) ==
    IF r.stop THEN r
    ELSE IF r.messages # <<>> /\ Last(r.messages).role = "user"
    THEN LET user_message == Last(r.messages)
             q == query_documents(user_message.content, TopK, r.selected_mode,
                                  r.session_id, ev.http)
             response == q.result
             r1 == [r EXCEPT !.queried = TRUE, !.request = q.request,
                             !.result = response, !.attempts = r.attempts + 1,
                             !.plain = r.plain /\ response # PyNone]
         IN  IF Truthy(response) /\ response.t = "dict"
             THEN LET assistant_message ==
                          AssistantMessage(response, r.selected_mode, r.session_id)
                  IN  [r1 EXCEPT
                          !.messages = Append(r.messages, assistant_message),
                          !.session_id = UpdateSessionId(r.session_id, assistant_message),
                          !.answered = TRUE, !.attempts = 0,
                          !.rerun = TRUE, !.stop = TRUE]
             ELSE r1
    ELSE r

\* Mutant of clear_conversation: the session id survives the reset.
clear_conversation_KeepsSessionId(r, ev) ==
    IF r.stop THEN r
    ELSE IF ev.kind = "clear"
    THEN [r EXCEPT !.messages = <<create_welcome_message(r.selected_mode)>>,
                   !.query_count = 0, !.email_provided = FALSE,
                   !.user_email = NoneSeq,
                   !.submitted = 0, !.attempts = 0, !.switched = FALSE,
                   !.cleared = TRUE,
                   !.rerun = TRUE, !.stop = TRUE]
    ELSE r

\* main(): the "Clear conversation" button.
clear_conversation(r, ev) ==
    IF r.stop THEN r
    ELSE IF ev.kind = "clear"
    THEN [r EXCEPT !.messages = <<create_welcome_message(r.selected_mode)>>,
                   !.query_count = 0, !.email_provided = FALSE,
                   !.user_email = NoneSeq, !.session_id = None,
                   !.submitted = 0, !.attempts = 0, !.switched = FALSE,
                   !.cleared = TRUE,
                   !.rerun = TRUE, !.stop = TRUE]
    ELSE r

main(ev) ==
    LET r1 == quota_check(Start(ev), ev)
        r2 == mode_selector(r1, ev)
        r3 == sidebar_audio(r2, ev)
        r4 == chat_history(r3)
        r5 == chat_input(r4, ev)
        r6 == audio_transcription(r5, ev)
        r7 == response_generation(r6, ev)
        r8 == clear_conversation(r7, ev)
    IN  r8

-----------------------------------------------------------------------------
(* Specification *)

\* What the network does for a call of a method of APIClient.
Net(kind, status, parsable, body, text, lines, fail, at) ==
    [kind |-> kind, status |-> status, parsable |-> parsable, body |-> body,
     text |-> text, lines |-> lines, fail |-> fail, at |-> at]

NoNet == Net("Exception", 0, FALSE, PyNone, "", <<>>, "none", 0)

NoHealth == HealthResult("none", None, None, PyNone)

\* No function is called on its own.
NoCall ==
    [fn |-> "none", question |-> <<>>, top_k |-> 0, mode |-> None,
     session_id |-> None, net |-> NoNet, done |-> FALSE, health |-> NoHealth,
     answer |-> [request |-> NoRequest, result |-> PyNone],
     stream |-> [request |-> NoRequest, events |-> <<>>, raised |-> FALSE],
     events |-> <<>>, sources |-> <<>>, document_count |-> 0,
     retrieved_content |-> NoneSeq,
     streamed |-> [message |-> Message("none", "", None, None, FALSE, None),
                   consumed |-> 0, panel |-> NoPanel],
     panel |-> NoPanel]

NoRun == [event |-> "load", modal |-> FALSE, widgets |-> FALSE,
          validation_error |-> FALSE, queried |-> FALSE, request |-> NoRequest,
          result |-> PyNone, answered |-> FALSE, cleared |-> FALSE,
          drawn |-> FALSE, first |-> NoMessage]

\* initialize_session_state() on the first load of a tab; the rest of the
\* first run of main() is the pending run.
FreshSession ==
    /\ selected_mode = "knowledge"
    /\ query_count = 0
    /\ email_provided = FALSE
    /\ user_email = NoneSeq
    /\ session_id = None
    /\ messages = <<create_welcome_message("knowledge")>>
    /\ audio = None
    /\ last_audio = None
    /\ audio_processed = FALSE
    /\ email_input = <<>>
    /\ rerun = TRUE
    /\ submitted = 0
    /\ attempts = 0
    /\ plain = TRUE
    /\ switched = FALSE
    /\ run = NoRun

Init == FreshSession /\ client = NoCall

\* The state a run of main() on event ev leaves.
Run(ev) ==
    \E r \in {main(ev)} :
        /\ Len(r.messages) <= MaxMessages
        /\ r.attempts <= MaxAttempts
        /\ messages' = r.messages
        /\ selected_mode' = r.selected_mode
        /\ query_count' = r.query_count
        /\ email_provided' = r.email_provided
        /\ user_email' = r.user_email
        /\ session_id' = r.session_id
        /\ audio' = r.audio
        /\ last_audio' = r.last_audio
        /\ audio_processed' = r.audio_processed
        /\ email_input' = r.email_input
        /\ rerun' = r.rerun
        /\ submitted' = r.submitted
        /\ attempts' = r.attempts
        /\ plain' = r.plain
        /\ switched' = r.switched
        /\ client' = client
        /\ run' = [event |-> r.event, modal |-> r.modal,
                   widgets |-> r.widgets,
                   validation_error |-> r.validation_error,
                   queried |-> r.queried, request |-> r.request,
                   result |-> r.result, answered |-> r.answered,
                   cleared |-> r.cleared,
                   drawn |-> r.drawn, first |-> r.first]

\* No run is pending and the last run drew the widgets of the chat page.
Interactive == ~rerun /\ run.widgets

\* No run is pending and the last run drew the e-mail prompt.
Prompted == ~rerun /\ run.modal

\* The backend is asked only by a run that finds a user message at the tail
\* (the steps before the query that change messages end the run or put an
\* assistant message there): only then is its outcome an input of the run.
HttpInputs ==
    IF messages # <<>> /\ Last(messages).role = "user"
    THEN HttpOutcomes
    ELSE {NoHttp}

\* The transcription service is asked only for a new recording.
TranscriptionInputs(clip) ==
    IF clip # last_audio THEN Transcriptions ELSE {NoTranscription}

\* A prompt is entered in the chat input.
ChatSubmit ==
    /\ Interactive
    /\ \E p \in Prompts :
        Run(Event("chat", p, None, None, NoTranscription, NoHttp, <<>>))

\* Another mode is chosen in the selector (the run puts a welcome message at
\* the tail, so it does not reach the query).
ModeSelect ==
    /\ Interactive
    /\ \E m \in Modes \ {selected_mode} :
        Run(Event("mode", <<>>, m, None, NoTranscription, NoHttp, <<>>))

\* A recording is finished in the sidebar recorder.
AudioRecord ==
    /\ Interactive
    /\ \E c \in AudioClips : \E t \in TranscriptionInputs(c) : \E h \in HttpInputs :
        Run(Event("audio", <<>>, None, c, t, h, <<>>))

\* "Clear conversation" is clicked; the run may reach the query first.
ClearClick ==
    /\ Interactive
    /\ \E h \in HttpInputs :
        Run(Event("clear", <<>>, None, None, NoTranscription, h, <<>>))

\* A run without a widget event: the run st.rerun() asked for, or a run
\* some other interaction starts.
Rerender ==
    \E h \in HttpInputs :
        Run(Event("rerender", <<>>, None, None, NoTranscription, h, <<>>))

Next == ChatSubmit \/ ModeSelect \/ AudioRecord \/ ClearClick \/ Rerender

Spec == Init /\ [][Next]_vars

\* The two functions outside main() that empty the list and ask for a run:
\* the "Clear" button of render_chat_controls (sidebar.py) and
\* clear_chat_history (chat_interface.py).  main() calls neither; they are
\* added here as operations of a page that does.
EmptyMessages(name) ==
    /\ Interactive
    /\ messages' = <<>>
    /\ rerun' = TRUE
    /\ submitted' = 0
    /\ attempts' = 0
    /\ plain' = FALSE
    /\ switched' = FALSE
    /\ run' = [NoRun EXCEPT !.event = name]
    /\ UNCHANGED <<selected_mode, query_count, email_provided, user_email,
                   session_id, audio, last_audio, audio_processed,
                   email_input, client>>

SidebarClear == EmptyMessages("sidebar_clear")

clear_chat_history == EmptyMessages("clear_chat_history")

NextSidebar == Next \/ SidebarClear \/ clear_chat_history

SpecSidebar == Init /\ [][NextSidebar]_vars

-----------------------------------------------------------------------------
(* The quota gate.  From a fresh session query_count stays 0 (see          *)
(* QueryCountStaysZero), so the runs of main() behind the quota check are  *)
(* examined from sessions whose query_count has reached the threshold:     *)
(* initialize_session_state() keeps every key that is already in           *)
(* st.session_state.                                                       *)

a_b_co == <<"a", "@", "b", ".", "c", "o">>
not_an_email == <<"n", "o", "t", "-", "a", "n", "-", "e", "m", "a", "i", "l">>

\* Texts for the e-mail input: the examples, and every text over
\* EmailAlphabet up to MaxEmailLen characters.
EmailSamples ==
    {<<>>, a_b_co, not_an_email,
     <<"a", "@", "b", ".", "c">>,
     <<"a", "_", "b", "@", "c", ".", "d", "e">>,
     <<"a", "@", "b", "_", "c", ".", "d", "e">>,
     <<"a", " ", "b", "@", "c", ".", "d", "e">>}

EmailAlphabet == {"a", "1", "@", "."}

EmailInputs ==
    EmailSamples \cup UNION {[1..n -> EmailAlphabet] : n \in 0..MaxEmailLen}

\* A session that has used up its free queries, at the start of a run,
\* with the message list hist.
GateSession(hist) ==
    /\ selected_mode \in Modes
    /\ query_count \in QuotaThreshold..MaxQueryCount
    /\ email_provided = FALSE
    /\ user_email = NoneSeq
    /\ session_id \in {None, "s1"}
    /\ messages = hist
    /\ audio = None
    /\ last_audio = None
    /\ audio_processed = FALSE
    /\ rerun = TRUE
    /\ submitted = 0
    /\ attempts = 0
    /\ plain = TRUE
    /\ switched = FALSE
    /\ run = NoRun
    /\ client = NoCall

\* The welcome message alone, or with a user message not yet answered.
InitGate ==
    /\ email_input = <<>>
    /\ session_id = None
    /\ \E p \in Prompts :
        \/ GateSession(<<create_welcome_message(selected_mode)>>)
        \/ GateSession(<<create_welcome_message(selected_mode), UserMessage(p)>>)

\* A text is entered in the e-mail input.
EmailType ==
    /\ Prompted
    /\ \E e \in {<<>>, a_b_co, not_an_email} \ {email_input} :
        Run(Event("type", <<>>, None, None, NoTranscription, NoHttp, e))

\* "Continue" is clicked in the e-mail prompt.
EmailSubmit ==
    /\ Prompted
    /\ Run(Event("email", <<>>, None, None, NoTranscription, NoHttp, email_input))

NextGate == Next \/ EmailType \/ EmailSubmit

SpecGate == InitGate /\ [][NextGate]_vars

\* The e-mail prompt alone, with any text in the input.
InitEmail ==
    /\ email_input \in EmailInputs
    /\ GateSession(<<create_welcome_message(selected_mode)>>)

NextEmail == Rerender \/ EmailSubmit

SpecEmail == InitEmail /\ [][NextEmail]_vars

-----------------------------------------------------------------------------
(* The methods of APIClient on their own: a call is drawn with its          *)
(* arguments and with what the network does, and the method is applied.     *)

RequestExceptions == {"ConnectionError", "ConnectTimeout", "Timeout", "Exception"}

Statuses == {200, 201, 404, 500}

ResponseTexts == {"", "Internal Server Error"}

ClientBodies ==
    {Dict({}, NoneSeq, None, FALSE, None),
     Dict({"answer", "session_id"}, <<"Antwort">>, "s1", FALSE, None)}

\* GET /health and POST /api/query: an exception, or a response.
PlainNets ==
    {Net(k, 0, FALSE, PyNone, "", <<>>, "none", 0) : k \in RequestExceptions}
    \cup {Net("response", st, TRUE, b, t, <<>>, "none", 0) :
            st \in Statuses, b \in ClientBodies, t \in ResponseTexts}
    \cup {Net("response", st, FALSE, PyNone, t, <<>>, "none", 0) :
            st \in Statuses, t \in ResponseTexts}

\* The lines of a streamed body.
StreamLines ==
    {StreamLine(TRUE, TRUE, ChunkEvent("Hel")),
     StreamLine(TRUE, TRUE, ChunkEvent("lo")),
     StreamLine(TRUE, TRUE, CompleteEvent("s1", <<"doc1.pdf">>, 1)),
     StreamLine(TRUE, TRUE, ErrorEvent("backend failed")),
     StreamLine(TRUE, FALSE, ErrorEvent("")),
     StreamLine(FALSE, FALSE, ErrorEvent(""))}

Call(fn, question, top_k, mode, sid, net) ==
    [NoCall EXCEPT !.fn = fn, !.question = question, !.top_k = top_k,
                   !.mode = mode, !.session_id = sid, !.net = net]

CallCheckHealth ==
    \E net \in PlainNets :
        client = Call("check_health", <<>>, 0, None, None, net)

\* top_k is a number or None (0 - 1).
CallQueryDocuments ==
    \E p \in Prompts, k \in {0 - 1, TopK}, m \in Modes, sid \in {None, "s1"},
       net \in PlainNets :
        client = Call("query_documents", p, k, m, sid, net)

\* POST /api/query/stream: an exception of the request, a response with a
\* status other than 200 (whose body is read as text, which may fail), or a
\* 200 response whose lines are read to the end or up to a failure.
CallQueryDocumentsStream ==
    \E p \in Prompts, sid \in {None, "s1"} :
        \/ \E k \in RequestExceptions :
              client = Call("query_documents_stream", p, TopK, "knowledge", sid,
                            Net(k, 0, FALSE, PyNone, "", <<>>, "none", 0))
        \/ \E st \in Statuses \ {200}, f \in RequestExceptions \cup {"none"} :
              client = Call("query_documents_stream", p, TopK, "knowledge", sid,
                            Net("response", st, FALSE, PyNone, "", <<>>, f, 0))
        \/ \E n \in 0..MaxLines : \E ls \in [1..n -> StreamLines] :
              \/ client = Call("query_documents_stream", p, TopK, "knowledge",
                               sid, Net("response", 200, FALSE, PyNone, "", ls,
                                        "none", n))
              \/ \E f \in RequestExceptions, at \in 0..n :
                    client = Call("query_documents_stream", p, TopK,
                                  "knowledge", sid,
                                  Net("response", 200, FALSE, PyNone, "", ls,
                                      f, at))

InitClient ==
    /\ FreshSession
    /\ CallCheckHealth \/ CallQueryDocuments \/ CallQueryDocumentsStream

SessionVars ==
    <<messages, selected_mode, query_count, email_provided, user_email,
      session_id, audio, last_audio, audio_processed, email_input, rerun,
      submitted, attempts, plain, switched, run>>

CheckHealth ==
    /\ client.fn = "check_health" /\ ~client.done
    /\ client' = [client EXCEPT !.done = TRUE,
                                !.health = check_health(client.net)]
    /\ UNCHANGED SessionVars

QueryDocuments ==
    /\ client.fn = "query_documents" /\ ~client.done
    /\ client' = [client EXCEPT
                     !.done = TRUE,
                     !.answer = query_documents(client.question, client.top_k,
                                                client.mode, client.session_id,
                                                client.net)]
    /\ UNCHANGED SessionVars

QueryDocumentsStream ==
    /\ client.fn = "query_documents_stream" /\ ~client.done
    /\ client' = [client EXCEPT
                     !.done = TRUE,
                     !.stream = query_documents_stream(
                                    client.question, client.top_k, client.mode,
                                    client.session_id, client.net)]
    /\ UNCHANGED SessionVars

NextClient == CheckHealth \/ QueryDocuments \/ QueryDocumentsStream

SpecClient == InitClient /\ [][NextClient]_vars

-----------------------------------------------------------------------------
(* The functions of components/chat_interface.py on their own.              *)

\* The events a generator hands to render_streaming_message: chunks, a
\* complete event with and without its fields, an error event with and
\* without a content, and an event of a type the loop does not know.
StreamEvents ==
    {ChunkEvent("Hel"), ChunkEvent("lo"),
     CompleteEvent("s1", <<"doc1.pdf">>, 1),
     StreamEvent("complete", None, None, NoneSeq, NoCount),
     ErrorEvent("backend failed"),
     StreamEvent("error", None, None, NoneSeq, NoCount),
     StreamEvent("ping", None, None, NoneSeq, NoCount)}

SourceNames == {"doc1.pdf", "doc2.pdf"}

\* A text of n characters that begins with seed.
RECURSIVE Repeated(_, _)
Repeated(seed, n) ==
    IF n <= 0 THEN ""
    ELSE IF n < Len(seed) THEN SubSeq(seed, 1, n)
    ELSE seed \o Repeated(seed, n - Len(seed))

\* Excerpts of 400, 500, 501 and 600 characters.
Excerpts ==
    {Repeated("abcdefghij", 400), Repeated("klmnopqrst", ExcerptLimit),
     Repeated("uvwxyzabcd", ExcerptLimit + 1), Repeated("efghijklmn", 600)}

CallRenderStreamingMessage ==
    \E n \in 0..MaxEvents : \E es \in [1..n -> StreamEvents], m \in Modes :
        client = [NoCall EXCEPT !.fn = "render_streaming_message",
                                !.events = es, !.mode = m]

\* retrieved_content is None (the default), or a list that is shorter than,
\* as long as, or longer than sources.
CallRenderSources ==
    \E n \in 0..MaxSources : \E ss \in [1..n -> SourceNames], dc \in {0, n} :
        \/ client = [NoCall EXCEPT !.fn = "render_sources", !.sources = ss,
                                   !.document_count = dc]
        \/ \E k \in 0..(MaxSources + 1) : \E rc \in [1..k -> Excerpts] :
              client = [NoCall EXCEPT !.fn = "render_sources", !.sources = ss,
                                      !.document_count = dc,
                                      !.retrieved_content = rc]

InitComponents ==
    /\ FreshSession
    /\ CallRenderStreamingMessage \/ CallRenderSources

RenderStreamingMessage ==
    /\ client.fn = "render_streaming_message" /\ ~client.done
    /\ client' = [client EXCEPT
                     !.done = TRUE,
                     !.streamed = render_streaming_message(client.events,
                                                           client.mode)]
    /\ UNCHANGED SessionVars

RenderSources ==
    /\ client.fn = "render_sources" /\ ~client.done
    /\ client' = [client EXCEPT
                     !.done = TRUE,
                     !.panel = render_sources(client.sources,
                                              client.document_count,
                                              client.retrieved_content)]
    /\ UNCHANGED SessionVars

NextComponents == RenderStreamingMessage \/ RenderSources

SpecComponents == InitComponents /\ [][NextComponents]_vars

-----------------------------------------------------------------------------
(* Properties *)

\* From a fresh session query_count never leaves 0: no statement of the
\* program adds to it.
QueryCountStaysZero == query_count = 0

\* C1: after n chat submissions whose queries all returned a value other
\* than None, with no mode switch or Clear (and no recording) in between,
\* and no run pending, len(messages) = 1 + 2n.
C1_LengthAfterSubmissions ==
    (plain /\ ~rerun) => Len(messages) = 1 + 2 * submitted

\* C2: query_count equals the number of prompts the chat input accepted
\* since the session started or was last cleared.
C2_QueryCountCountsSubmissions == query_count = submitted

\* C3: without a captured e-mail no more than QuotaThreshold prompts are
\* accepted: a fourth submission is blocked.
C3_FourthSubmissionBlocked == ~email_provided => submitted <= QuotaThreshold

\* C4: a run whose query returned None leaves an assistant message with
\* error = true at the tail of messages.
C4_ErrorMessageOnNull ==
    (run.queried /\ run.result = PyNone)
        => (Last(messages).role = "assistant" /\ Last(messages).error)

\* C5: the user message at the tail is sent to the backend at most once.
C5_AtMostOneQueryPerQuestion == attempts <= 1

\* C6: a step takes session_id from a value other than None to None only
\* when its run performed Clear.
C6_SessionIdSticky ==
    [][(session_id # None /\ session_id' = None) => run'.cleared]_vars

\* C6 witness: the session id is still set after an answer whose body had
\* no session_id.
C6_Witness ==
    /\ session_id # None
    /\ run.answered
    /\ "session_id" \notin run.result.keys

\* C7: the request body of every query carries the session's session_id
\* when that is not None, and has no session_id field when it is None.
C7_QuerySendsSessionId ==
    [][run'.queried =>
          IF session_id # None
          THEN /\ "session_id" \in run'.request.keys
               /\ run'.request.session_id = session_id
          ELSE "session_id" \notin run'.request.keys]_vars

\* C7 witness: a query sent with the session id an earlier answer supplied.
C7_Witness ==
    /\ run.queried
    /\ "session_id" \in run.request.keys
    /\ run.request.session_id = "s1"
    /\ \E i \in 1..Len(messages) : messages[i].session_id = "s1"

\* C8: while query_count >= QuotaThreshold and no e-mail is captured, every
\* run draws the e-mail prompt and not the chat page, sends no query and
\* leaves messages and query_count as they are.
C8_GateBlocks ==
    [][(query_count >= QuotaThreshold /\ ~email_provided) =>
          /\ run'.modal
          /\ ~run'.widgets
          /\ ~run'.queried
          /\ messages' = messages
          /\ query_count' = query_count
          /\ submitted' = submitted]_vars

\* C8 witness: the prompt was drawn, no run is pending, and the user
\* message at the tail is still unanswered.
C8_Witness ==
    /\ query_count >= QuotaThreshold
    /\ ~email_provided
    /\ ~rerun
    /\ run.modal
    /\ ~run.queried
    /\ Last(messages).role = "user"

\* C9: once an e-mail is captured, every run that does not perform Clear
\* keeps email_provided and user_email, draws no e-mail prompt and, unless
\* it asks for a rerun, draws the chat page.
C9_UnlockPersists ==
    [][email_provided =>
          \/ run'.cleared
          \/ /\ email_provided'
             /\ user_email' = user_email
             /\ ~run'.modal
             /\ (~rerun' => run'.widgets)]_vars

\* C9 witness: prompts accepted after the e-mail, with the quota used up.
C9_Witness ==
    /\ email_provided
    /\ user_email = a_b_co
    /\ query_count >= QuotaThreshold
    /\ submitted >= 2

\* The e-mail pattern as the claim words it: a local part, "@", a domain,
\* ".", and two or more letters.
MatchesEmailPattern(text) ==
    \E at \in 1..Len(text) : \E dot \in 1..Len(text) :
        /\ 1 < at /\ at + 1 < dot /\ dot + 2 <= Len(text)
        /\ text[at] = "@"
        /\ text[dot] = "."
        /\ \A k \in 1..(at - 1) : text[k] \in LocalChars
        /\ \A k \in (at + 1)..(dot - 1) : text[k] \in DomainChars
        /\ \A k \in (dot + 1)..Len(text) : text[k] \in Letters

\* C10: a click on "Continue" with a text that matches the pattern stores
\* it in user_email and sets email_provided; with any other text, the empty
\* one included, it shows a validation error and changes no session field.
\* a@b.co is accepted and not-an-email is refused.
C10_EmailCapture ==
    [][run'.event = "email" =>
          /\ UNCHANGED <<messages, selected_mode, query_count, session_id,
                         audio, last_audio, audio_processed, email_input>>
          /\ IF MatchesEmailPattern(email_input)
             THEN /\ user_email' = email_input
                  /\ email_provided'
             ELSE /\ run'.validation_error
                  /\ ~email_provided'
                  /\ user_email' = NoneSeq
          /\ (email_input = a_b_co => email_provided')
          /\ (email_input = not_an_email => ~email_provided')]_vars

\* C10 witness: a@b.co was captured.
C10_Witness ==
    /\ run.event = "email"
    /\ email_provided
    /\ user_email = a_b_co

\* C11: query_count is changed only by a run that accepts a prompt (by +1)
\* and by a run that performs Clear (to 0).  A run that switches the mode, a
\* run stopped at the quota, a click on "Continue" with a valid or an
\* invalid e-mail, a text typed in the e-mail input and a run without an
\* event leave it as it is: a captured e-mail gives no used query back, and
\* query_count goes down only in a run that performs Clear.
C11_QueryCountFrame ==
    [][/\ (query_count' # query_count =>
              \/ (submitted' = submitted + 1 /\ query_count' = query_count + 1)
              \/ (run'.cleared /\ query_count' = 0))
        /\ (run'.event \in {"mode", "email", "type", "rerender"} =>
              query_count' = query_count)
        /\ (run'.modal => query_count' = query_count)
        /\ (query_count' < query_count => run'.cleared)]_vars

\* C11 witness: the mode was switched after an e-mail was captured, and the
\* used queries are still counted.
C11_Witness ==
    /\ run.event = "mode"
    /\ email_provided
    /\ query_count >= QuotaThreshold
    /\ ~run.cleared

\* C12: a run that performs Clear leaves exactly one message, the welcome
\* message of the selected mode, query_count = 0, email_provided = false,
\* user_email = None and session_id = None, and keeps selected_mode.
C12_ClearResets ==
    [][run'.cleared =>
          /\ messages' = <<create_welcome_message(selected_mode)>>
          /\ query_count' = 0
          /\ ~email_provided'
          /\ user_email' = NoneSeq
          /\ session_id' = None
          /\ selected_mode' = selected_mode]_vars

\* C12 witness: Clear was performed in preparation mode in a session that
\* had used up its queries and given an e-mail (query_count is 0 here only
\* through Clear).
C12_Witness ==
    /\ run.cleared
    /\ selected_mode = "preparation"
    /\ messages = <<create_welcome_message("preparation")>>
    /\ query_count = 0
    /\ ~email_provided
    /\ session_id = None

\* C13: a run that changes the mode from p to q replaces the message at the
\* tail by the welcome message of q when that message is the welcome message
\* of p, and otherwise appends the welcome message of q and keeps every
\* earlier message; in both cases session_id, query_count, email_provided
\* and user_email keep their values.
C13_ModeSwitchWelcome ==
    [][(run'.event = "mode" /\ selected_mode' # selected_mode) =>
          /\ IF Last(messages) = create_welcome_message(selected_mode)
             THEN messages' = [messages EXCEPT ![Len(messages)] =
                                  create_welcome_message(selected_mode')]
             ELSE messages' =
                      Append(messages, create_welcome_message(selected_mode'))
          /\ UNCHANGED <<session_id, query_count, email_provided,
                         user_email>>]_vars

\* A welcome message made by create_welcome_message.
IsWelcomeMessage(m) == \E mode \in Modes : m = create_welcome_message(mode)

\* C14: after one or more mode switches with no prompt accepted in between,
\* the tail of messages is the welcome message of the selected mode and the
\* message before it is no welcome message; a further mode switch replaces
\* the welcome message, so that len(messages) does not grow after the first
\* switch.
C14_WelcomeReplacedNotStacked ==
    [][/\ (switched' =>
              /\ Last(messages') = create_welcome_message(selected_mode')
              /\ (Len(messages') >= 2 =>
                     ~IsWelcomeMessage(messages'[Len(messages') - 1])))
        /\ ((switched /\ run'.event = "mode" /\ selected_mode' # selected_mode)
              => Len(messages') = Len(messages))]_vars

\* C14 witness: the mode was switched to preparation and back after an
\* answer, and one welcome message follows the answer.
C14_Witness ==
    /\ switched
    /\ run.event = "mode"
    /\ selected_mode = "knowledge"
    /\ Len(messages) = 4
    /\ messages[3].role = "assistant"
    /\ messages[3].mode = "knowledge"
    /\ messages[4] = create_welcome_message("knowledge")

\* C15: a run that does not perform Clear keeps every user message and every
\* answer of the backend (every message that is no welcome message) at its
\* index with its content; a mode switch replaces welcome messages only.
C15_AppendOnly ==
    [][~run'.cleared =>
          \A i \in 1..Len(messages) :
              ~IsWelcomeMessage(messages[i]) =>
                  /\ i <= Len(messages')
                  /\ messages'[i] = messages[i]]_vars

\* C16: the assistant message appended for an answered query has the
\* response's answer as content and carries the response's sources (in their
\* order), document_count and retrieved_content, with the session id and
\* the pdf_available and pdf_download_url of the response.
C16_MessageCarriesSources ==
    run.answered =>
        /\ Last(messages).role = "assistant"
        /\ Last(messages).content = Get(run.result, "answer", NoResponseReceived)
        /\ Last(messages).session_id =
               Get(run.result, "session_id", run.request.session_id)
        /\ Last(messages).pdf_available = Get(run.result, "pdf_available", FALSE)
        /\ Last(messages).pdf_download_url =
               Get(run.result, "pdf_download_url", None)
        /\ Last(messages).sources = Get(run.result, "sources", NoneSeq)
        /\ Last(messages).document_count =
               Get(run.result, "document_count", NoCount)
        /\ Last(messages).retrieved_content =
               Get(run.result, "retrieved_content", NoneSeq)

\* C17: a run whose query returned a value other than None appends exactly
\* one message, an assistant message without error; only None takes the
\* failure branch.
C17_NonNullResultAnswered ==
    [][(run'.queried /\ run'.result # PyNone) =>
          /\ run'.answered
          /\ Len(messages') = Len(messages) + 1
          /\ Last(messages').role = "assistant"
          /\ ~Last(messages').error]_vars

HealthStatuses == {"healthy", "unhealthy", "unreachable", "timeout", "error"}

\* C18: check_health raises nothing and returns one of the five statuses:
\* healthy only for HTTP status 200; unhealthy, with the text of the body as
\* details, for every other status; unreachable for a connection failure;
\* timeout for every timeout; error for any other exception.
C18_HealthStatus ==
    (client.fn = "check_health" /\ client.done) =>
        /\ client.health.status \in HealthStatuses
        /\ (client.health.status = "healthy" =>
               client.net.kind = "response" /\ client.net.status = 200)
        /\ ((client.net.kind = "response" /\ client.net.status # 200) =>
               /\ client.health.status = "unhealthy"
               /\ client.health.details = client.net.text)
        /\ (client.net.kind = "ConnectionError" =>
               client.health.status = "unreachable")
        /\ (client.net.kind \in {"Timeout", "ConnectTimeout"} =>
               client.health.status = "timeout")
        /\ (client.net.kind = "Exception" => client.health.status = "error")

\* C18 as amended: a timeout while connecting is a connection failure and
\* gives unreachable; every other timeout gives timeout.  A 200 response
\* gives healthy with the parsed body, or error when the body is no JSON.
C18_HealthStatusAmended ==
    (client.fn = "check_health" /\ client.done) =>
        /\ client.health.status \in HealthStatuses
        /\ (client.health.status = "healthy" =>
               client.net.kind = "response" /\ client.net.status = 200)
        /\ ((client.net.kind = "response" /\ client.net.status # 200) =>
               /\ client.health.status = "unhealthy"
               /\ client.health.details = client.net.text)
        /\ (client.net.kind \in {"ConnectionError", "ConnectTimeout"} =>
               client.health.status = "unreachable")
        /\ (client.net.kind = "Timeout" => client.health.status = "timeout")
        /\ (client.net.kind = "Exception" => client.health.status = "error")
        /\ ((client.net.kind = "response" /\ client.net.status = 200) =>
               IF client.net.parsable
               THEN /\ client.health.status = "healthy"
                    /\ client.health.data = client.net.body
               ELSE client.health.status = "error")

\* C18 witness: the timeout while connecting was reported as unreachable.
C18_Witness ==
    /\ client.fn = "check_health"
    /\ client.done
    /\ client.net.kind = "ConnectTimeout"
    /\ client.health.status = "unreachable"

\* C19: query_documents raises nothing; it returns the parsed body when the
\* HTTP status is 200 and the body is JSON, and None for every other status,
\* for a connection failure, a timeout, any other exception, and a 200
\* response whose body is no JSON.
C19_QueryReturnsBodyOrNone ==
    (client.fn = "query_documents" /\ client.done) =>
        /\ client.answer.result.t # "raised"
        /\ IF /\ client.net.kind = "response"
              /\ client.net.status = 200
              /\ client.net.parsable
           THEN client.answer.result = client.net.body
           ELSE client.answer.result = PyNone

\* C19 witness: a response with another status than 200 and a JSON body
\* was turned into None.
C19_Witness ==
    /\ client.fn = "query_documents"
    /\ client.done
    /\ client.net.kind = "response"
    /\ client.net.status = 201
    /\ client.net.parsable
    /\ client.net.body.keys # {}
    /\ client.answer.result = PyNone

\* The request of the stream, or the reading of its body, raised an exception.
StreamFailed(net) == net.kind # "response" \/ net.fail # "none"

\* The lines of a 200 response that were read before the failure and that
\* give an event.
EventLinesRead(net) ==
    {i \in 1..Len(net.lines) :
        /\ net.kind = "response" /\ net.status = 200
        /\ (net.fail # "none" => i <= net.at)
        /\ net.lines[i].data /\ net.lines[i].parses}

\* C20: query_documents_stream raises nothing.  For a status other than 200
\* it yields one event, an error event.  For a connection failure, a timeout
\* or any other exception, before the first event or between two events, it
\* yields one event for the failure, an error event, as its last event,
\* after the events of the lines read before; when none of these is an
\* error event of the backend, that is the only error event.
C20_StreamFailureIsOneErrorEvent ==
    (client.fn = "query_documents_stream" /\ client.done) =>
        /\ ~client.stream.raised
        /\ ((client.net.kind = "response" /\ client.net.status # 200) =>
               /\ Len(client.stream.events) = 1
               /\ client.stream.events[1].type = "error")
        /\ (StreamFailed(client.net) =>
               /\ Len(client.stream.events) =
                      Cardinality(EventLinesRead(client.net)) + 1
               /\ Last(client.stream.events).type = "error"
               /\ ((\A i \in EventLinesRead(client.net) :
                        client.net.lines[i].payload.type # "error") =>
                      Cardinality({k \in 1..Len(client.stream.events) :
                          client.stream.events[k].type = "error"}) = 1))

\* C20 witness: the connection broke after the first of two chunks.
C20_Witness ==
    /\ client.fn = "query_documents_stream"
    /\ client.done
    /\ client.net.status = 200
    /\ client.net.fail = "ConnectionError"
    /\ client.net.at = 1
    /\ Len(client.net.lines) = 2
    /\ client.stream.events =
           <<ChunkEvent("Hel"), ErrorEvent("Cannot connect to backend")>>

\* C21: in the sequence query_documents_stream yields, a complete event or
\* an error event is the last event: nothing is yielded after it, whatever
\* lines follow.
C21_CompleteAndErrorAreTerminal ==
    (client.fn = "query_documents_stream" /\ client.done) =>
        \A k \in 1..Len(client.stream.events) :
            client.stream.events[k].type \in {"complete", "error"} =>
                k = Len(client.stream.events)

\* C26: for a 200 response read to its end, the events yielded are the
\* payloads of the lines that start with "data: " and are JSON, each once
\* and in the order of the lines; the other lines are skipped and neither
\* end the sequence nor drop a later event.
C26_StreamYieldsParsedDataLines ==
    (/\ client.fn = "query_documents_stream" /\ client.done
     /\ client.net.kind = "response" /\ client.net.status = 200
     /\ client.net.fail = "none") =>
        /\ ~client.stream.raised
        /\ Len(client.stream.events) = Cardinality(EventLinesRead(client.net))
        /\ \A i \in EventLinesRead(client.net) :
               client.stream.events[
                   Cardinality({j \in EventLinesRead(client.net) : j <= i})]
                   = client.net.lines[i].payload

\* C26 witness: a malformed data line and a non-data line between two
\* chunks were skipped.
C26_Witness ==
    /\ client.fn = "query_documents_stream"
    /\ client.done
    /\ client.net.fail = "none"
    /\ Len(client.net.lines) = 3
    /\ client.net.lines[1].payload = ChunkEvent("Hel")
    /\ client.net.lines[2].data /\ ~client.net.lines[2].parses
    /\ client.stream.events = <<ChunkEvent("Hel"), ChunkEvent("lo")>>

\* The contents of the chunk events among the first k events, joined in
\* the order of arrival.
RECURSIVE ChunkText(_, _)
ChunkText(events, k) ==
    IF k = 0 THEN ""
    ELSE ChunkText(events, k - 1)
         \o (IF events[k].type = "chunk" /\ events[k].content # None
             THEN events[k].content ELSE "")

\* The call of render_streaming_message has returned, and event k is the
\* first event that is no chunk.
FirstAfterChunks(k) ==
    /\ client.fn = "render_streaming_message" /\ client.done
    /\ k \in 1..Len(client.events)
    /\ \A j \in 1..(k - 1) : client.events[j].type = "chunk"
    /\ client.events[k].type # "chunk"

\* C22: chunk events followed by a complete event give a non-error
\* assistant message whose content is the contents of the chunks joined in
\* arrival order and whose sources, document count and session id are those
\* of the complete event; no event after the complete event is consumed.
C22_StreamReconstruction ==
    \A k \in 1..MaxEvents + 1 :
        (FirstAfterChunks(k) /\ client.events[k].type = "complete") =>
            /\ client.streamed.message.role = "assistant"
            /\ ~client.streamed.message.error
            /\ client.streamed.message.content = ChunkText(client.events, k - 1)
            /\ client.streamed.message.session_id = client.events[k].session_id
            /\ (client.events[k].sources # NoneSeq =>
                   client.streamed.message.sources = client.events[k].sources)
            /\ (client.events[k].document_count # NoCount =>
                   client.streamed.message.document_count
                       = client.events[k].document_count)
            /\ client.streamed.consumed = k

\* C22 witness: chunks "Hel" and "lo", the complete event with
\* ["doc1.pdf"], and a chunk after it that was not consumed.
C22_Witness ==
    /\ client.fn = "render_streaming_message"
    /\ client.done
    /\ client.events = <<ChunkEvent("Hel"), ChunkEvent("lo"),
                         CompleteEvent("s1", <<"doc1.pdf">>, 1),
                         ChunkEvent("lo")>>
    /\ client.streamed.message.content = "Hello"
    /\ client.streamed.message.sources = <<"doc1.pdf">>
    /\ client.streamed.consumed = 3

\* C23: an error event after any number of chunks gives at once an
\* assistant message with error = true whose content is the content of the
\* error event; no further event is consumed.
C23_StreamError ==
    \A k \in 1..MaxEvents + 1 :
        (FirstAfterChunks(k) /\ client.events[k].type = "error") =>
            /\ client.streamed.message.role = "assistant"
            /\ client.streamed.message.error
            /\ (client.events[k].content # None =>
                   client.streamed.message.content = client.events[k].content)
            /\ client.streamed.consumed = k

\* C23 witness: an error event after one chunk, with a complete event
\* behind it that was not consumed.
C23_Witness ==
    /\ client.fn = "render_streaming_message"
    /\ client.done
    /\ client.events = <<ChunkEvent("Hel"), ErrorEvent("backend failed"),
                         CompleteEvent("s1", <<"doc1.pdf">>, 1)>>
    /\ client.streamed.message.error
    /\ client.streamed.message.content = "backend failed"
    /\ client.streamed.consumed = 2

\* C29: for every sequence of events the consumer returns one assistant
\* message; when the sequence ends without a complete or an error event the
\* message is no error message, its content is the chunks received joined,
\* its sources are empty, its document count is 0 and its session id null.
C29_OneMessagePerStream ==
    (client.fn = "render_streaming_message" /\ client.done) =>
        /\ client.streamed.message.role = "assistant"
        /\ client.streamed.consumed <= Len(client.events)
        /\ (\A k \in 1..Len(client.events) :
                client.events[k].type \notin {"complete", "error"}) =>
               /\ ~client.streamed.message.error
               /\ client.streamed.message.content
                      = ChunkText(client.events, Len(client.events))
               /\ client.streamed.message.sources = <<>>
               /\ client.streamed.message.document_count = 0
               /\ client.streamed.message.session_id = None
               /\ client.streamed.consumed = Len(client.events)

\* C29 witness: a stream that ends after two chunks.
C29_Witness ==
    /\ client.fn = "render_streaming_message"
    /\ client.done
    /\ client.events = <<ChunkEvent("Hel"), ChunkEvent("lo")>>
    /\ client.streamed.message.content = "Hello"
    /\ ~client.streamed.message.error
    /\ client.streamed.message.sources = <<>>

\* C24: the panel has one entry per source, in the order of sources; the
\* entry at position i shows the excerpt at position i of
\* retrieved_content: its first 500 characters and an ellipsis when it is
\* longer than 500 characters, the excerpt as it is otherwise, and no
\* excerpt when retrieved_content has no position i.
C24_SourcesPanel ==
    (client.fn = "render_sources" /\ client.done /\ client.sources # <<>>) =>
        /\ client.panel.shown
        /\ Len(client.panel.entries) = Len(client.sources)
        /\ \A i \in 1..Len(client.sources) :
              /\ client.panel.entries[i].source = client.sources[i]
              /\ IF client.retrieved_content = NoneSeq
                    \/ i > Len(client.retrieved_content)
                 THEN client.panel.entries[i].excerpt = None
                 ELSE IF Len(client.retrieved_content[i]) > 500
                 THEN /\ Len(client.panel.entries[i].excerpt) = 503
                      /\ SubSeq(client.panel.entries[i].excerpt, 1, 500)
                            = SubSeq(client.retrieved_content[i], 1, 500)
                      /\ SubSeq(client.panel.entries[i].excerpt, 501, 503)
                            = "..."
                 ELSE client.panel.entries[i].excerpt
                          = client.retrieved_content[i]

\* C24 witness: two sources with excerpts of 600 and of 400 characters.
C24_Witness ==
    /\ client.fn = "render_sources"
    /\ client.done
    /\ Len(client.sources) = 2
    /\ Len(client.retrieved_content) = 2
    /\ Len(client.retrieved_content[1]) = 600
    /\ Len(client.retrieved_content[2]) = 400
    /\ Len(client.panel.entries[1].excerpt) = 503
    /\ client.panel.entries[2].excerpt = client.retrieved_content[2]

\* C25: a fresh session has the welcome message of the knowledge mode as
\* its only message, the knowledge mode selected, a query count of 0, no
\* e-mail and no session id; and whenever a run draws the chat history,
\* also after the list was emptied, the list is not empty and the first
\* message drawn is a welcome message.
C25_FreshSessionAndWelcomeFirst ==
    /\ (run.event = "load" =>
           /\ messages = <<create_welcome_message("knowledge")>>
           /\ selected_mode = "knowledge"
           /\ query_count = 0
           /\ ~email_provided
           /\ user_email = NoneSeq
           /\ session_id = None)
    /\ (run.drawn => IsWelcomeMessage(run.first))

\* C25 witness: the run after the list was emptied outside main() has drawn
\* a welcome message; the session id of the earlier answer is still there.
C25_Witness ==
    /\ run.event = "rerender"
    /\ run.drawn
    /\ messages = <<run.first>>
    /\ IsWelcomeMessage(run.first)
    /\ session_id = "s1"

\* C27: no two user messages are adjacent, and every user message that is
\* not at the tail is followed at once by an assistant message that answers
\* it (its answer or its error message, not the welcome message of a mode
\* switch).
C27_TurnAlternation ==
    \A i \in 1..(Len(messages) - 1) :
        messages[i].role = "user" =>
            /\ messages[i + 1].role = "assistant"
            /\ ~IsWelcomeMessage(messages[i + 1])

\* The positions of the assistant messages that carry a session id.
CarrySessionId ==
    {i \in 1..Len(messages) :
        messages[i].role = "assistant" /\ messages[i].session_id # None}

\* C28: the session id of the session is the session id of the last
\* assistant message in the list that carries one, and is null exactly when
\* no message carries one.
C28_SessionIdOfLastAnswer ==
    IF CarrySessionId = {}
    THEN session_id = None
    ELSE \E i \in CarrySessionId :
            /\ \A j \in CarrySessionId : j <= i
            /\ session_id = messages[i].session_id

\* C30: the run that handles a click on "Clear conversation" ends in the
\* cleared state, whatever else the run does before it reaches the button.
C30_ClearTakesEffect ==
    [][run'.event = "clear" =>
          /\ run'.cleared
          /\ messages' = <<create_welcome_message(selected_mode')>>
          /\ session_id' = None]_vars

====
